---------------------------- MODULE Spec2Model ----------------------------
(***************************************************************************)
(* Model of nodes/navigate_to_aruco.py: the NavigateToArucoServer action   *)
(* server.  One execute thread runs execute_callback for a request; the    *)
(* cancel thread runs cancel_goals.  The execute thread is cut at its      *)
(* blocking calls (scan wait, transform lookups, navigation wait), so the  *)
(* cancel thread can interleave wherever it can in the program.            *)
(*                                                                         *)
(* Lengths and angles are integers in units of 0.001 (mm, mrad).           *)
(***************************************************************************)
EXTENDS Integers, Sequences, FiniteSets

VARIABLES
    pc,                 \* position of the execute thread
    num_tries,          \* self.num_tries
    map_to_aruco,       \* self.map_to_aruco: <<>> before the first assignment, else <<pose>>
    transforms,         \* len(transforms) in navigate_to_marker's sampling loop
    pending,            \* move_base_aruco_callback frames suspended in the call of line 224
    preempt_requested,  \* self.server.is_preempt_requested()
    requests,           \* requests accepted so far
    reports,            \* set_succeeded / set_aborted / set_preempted calls of this request, in order
    feedbacks,          \* feedback.state values published for this request, in order
    navGoals,           \* goals sent to move_base_client in this request
    scanGoals,          \* goals sent to head_scan_client in this request
    navCancels,         \* move_base_client.cancel_all_goals() calls in this request
    scanCancels,        \* head_scan_client.cancel_all_goals() calls in this request
    broadcasts,         \* tf2_broadcaster.sendTransform calls in this request
    lookups,            \* tf2_buffer.lookup_transform calls in this request
    navResult,          \* value returned by the last move_base send_goal_and_wait
    diffLog,            \* the values calculate_diff returned in this request (line 221), in order
    escaped,            \* an exception left execute_callback in this request
    scanFailed,         \* a scan of this request reported marker-not-found
    lookupFailed,       \* a transform lookup of this request raised
    sampleFailed,       \* a 'relative_pose' lookup of this request raised
    cancelAt,           \* pc of the execute thread when cancel_goals ran, "none" if it did not
    cancelCycle,        \* num_tries when cancel_goals ran
    poseLog,            \* the marker poses lookup_transform('map', aruco_name) returned in this request
    trans1, trans2,     \* inputs of calculate_diff (pure-function specification)
    diffs,              \* results of calculate_diff on them: <<>> before it is applied
    samples,            \* input of average_transforms (pure-function specification)
    averaged            \* <<>> before average_transforms is applied, then << its result >>

vars == << pc, num_tries, map_to_aruco, transforms, pending, preempt_requested,
           requests, reports, feedbacks, navGoals, scanGoals, navCancels,
           scanCancels, broadcasts, lookups, navResult, diffLog,
           escaped, scanFailed, lookupFailed, sampleFailed, cancelAt,
           cancelCycle, poseLog, trans1, trans2, diffs, samples, averaged >>

ctlVars  == << pc, num_tries, map_to_aruco, transforms, pending, preempt_requested,
               requests, reports, feedbacks, navGoals, scanGoals, navCancels,
               scanCancels, broadcasts, lookups, navResult, diffLog,
               escaped, scanFailed, lookupFailed, sampleFailed, cancelAt,
               cancelCycle, poseLog >>
diffVars == << trans1, trans2, diffs >>
avgVars  == << samples, averaged >>

-----------------------------------------------------------------------------
(* Bounds of the model *)

MaxRequests == 2        \* requests submitted in one behaviour
MaxCoord == 4           \* pose grid of the pure-function specification: 0 .. MaxCoord steps of 25
MaxAvgLen == 10         \* longest input of average_transforms in its pure-function specification
DiffScale == 200        \* calculate_diff's result is kept to 1/DiffScale of a unit

(* Program constants *)

max_tries == 3          \* self.max_tries
NumSamples == 10        \* while len(transforms) < 10
Threshold == 75         \* 0.075

-----------------------------------------------------------------------------
(* Poses: translation x, y and the yaw euler_from_quaternion extracts *)

Coords == { 25 * i : i \in 0 .. MaxCoord }

DiffPoses == [ x : Coords, y : Coords, yaw : Coords ]

\* marker world poses the transform service returns in the controller runs
MarkerPoses == [ x : {0, 75, 100}, y : {0}, yaw : {0, 50} ]

RECURSIVE SqrtBetween(_, _, _)
SqrtBetween(n, lo, hi) ==
    IF lo >= hi THEN lo
    ELSE LET mid == (lo + hi + 1) \div 2
         IN  IF mid <= n \div mid THEN SqrtBetween(n, mid, hi)
                                  ELSE SqrtBetween(n, lo, mid - 1)

\* math.sqrt on a non-negative integer, rounded down
sqrt(n) == SqrtBetween(n, 0, 46340)

calculate_diffNoAngle2(t1, t2) ==
    sqrt(DiffScale * DiffScale *
         ((t1.x - t2.x) * (t1.x - t2.x) + (t1.y - t2.y) * (t1.y - t2.y)
          + t1.yaw * t1.yaw))

\* the difference, in units of 0.001 / DiffScale.  For DiffScale >= 151 the
\* rounding of sqrt never crosses the threshold: for an integer sum of squares s,
\* sqrt(DiffScale^2 * s) > 75 * DiffScale exactly when s > 75^2.
calculate_diff(t1, t2) ==
    sqrt(DiffScale * DiffScale *
         ((t1.x - t2.x) * (t1.x - t2.x) + (t1.y - t2.y) * (t1.y - t2.y)
          + (t1.yaw - t2.yaw) * (t1.yaw - t2.yaw)))

\* samples handed to average_transforms: translation x, y, z and the
\* roll, pitch, yaw that euler_from_quaternion extracts from the rotation
AvgPoses == [ x : {-50, 100}, y : {25}, z : {0, 300},
              roll : {0, 20}, pitch : {-20}, yaw : {-3000, 0, 3000} ]

RECURSIVE SumOf(_, _, _)
SumOf(ts, field, i) ==
    IF i > Len(ts) THEN 0 ELSE ts[i][field] + SumOf(ts, field, i + 1)

\* a / n to the nearest unit
Divide(a, n) == (2 * a + n) \div (2 * n)

\* the yaw of quaternion_from_euler(0, 0, angle): the angle modulo 2 pi, in (-pi, pi]
YawOfQuaternion(angle) == ((angle + 3141) % 6283) - 3141

average_transformsSkipFirstYaw(ts) ==
    LET n == Len(ts)
    IN  [ x     |-> Divide(SumOf(ts, "x", 1), n),
          y     |-> Divide(SumOf(ts, "y", 1), n),
          z     |-> 0,
          roll  |-> 0,
          pitch |-> 0,
          yaw   |-> YawOfQuaternion(Divide(SumOf(ts, "yaw", 2), n)) ]

\* average_transforms: x and y are averaged, z is set to 0, the yaws are averaged
\* and the rotation is rebuilt from roll 0, pitch 0 and that yaw
average_transforms(ts) ==
    LET n == Len(ts)
    IN  [ x     |-> Divide(SumOf(ts, "x", 1), n),
          y     |-> Divide(SumOf(ts, "y", 1), n),
          z     |-> 0,
          roll  |-> 0,
          pitch |-> 0,
          yaw   |-> YawOfQuaternion(Divide(SumOf(ts, "yaw", 1), n)) ]

NotConvergedBelow(diff) == diff < Threshold * DiffScale

NotConvergedAtOrAbove(diff) == diff >= Threshold * DiffScale

\* if (diff > 0.075)
NotConverged(diff) == diff > Threshold * DiffScale

-----------------------------------------------------------------------------
(* Feedback *)

Scanning    == "Scanning for marker..."
Navigating  == "Navigating to marker..."
NotFound    == "Could not find Aruco Marker. Stretch may be too far away, try moving it closer to the marker."
NavFailed   == "Navigation failed, please try again."
Succeeded   == "Navigation succeeded!"
Cancelled   == "Aruco navigation cancelled!"

alert_type(state) ==
    CASE state \in {Scanning, Navigating}           -> "info"
      [] state \in {NotFound, NavFailed, Cancelled} -> "error"
      [] state = Succeeded                          -> "success"

publish_feedback(state) == feedbacks' = Append(feedbacks, state)

set_aborted   == reports' = Append(reports, "aborted")
set_succeeded == reports' = Append(reports, "succeeded")
set_preempted == reports' = Append(reports, "preempted")

\* preempt_callback
preempt_callback == publish_feedback(Cancelled)

-----------------------------------------------------------------------------
(* State after __init__, before any request *)

InitController ==
    /\ pc = "idle"
    /\ num_tries = 0
    /\ map_to_aruco = << >>
    /\ transforms = 0
    /\ pending = 0
    /\ preempt_requested = FALSE
    /\ requests = 0
    /\ reports = << >>
    /\ feedbacks = << >>
    /\ navGoals = 0
    /\ scanGoals = 0
    /\ navCancels = 0
    /\ scanCancels = 0
    /\ broadcasts = 0
    /\ lookups = 0
    /\ navResult = "none"
    /\ diffLog = << >>
    /\ escaped = FALSE
    /\ scanFailed = FALSE
    /\ lookupFailed = FALSE
    /\ sampleFailed = FALSE
    /\ cancelAt = "none"
    /\ cancelCycle = 0
    /\ poseLog = << >>

InitDiffIdle ==
    /\ trans1 = [x |-> 0, y |-> 0, yaw |-> 0]
    /\ trans2 = [x |-> 0, y |-> 0, yaw |-> 0]
    /\ diffs = << >>

InitAvgIdle ==
    /\ samples = << >>
    /\ averaged = << >>

Init ==
    /\ InitController
    /\ InitDiffIdle
    /\ InitAvgIdle

-----------------------------------------------------------------------------
(* The execute thread *)

\* execute_callback, lines 63-74: a request is accepted and the first scan goal sent.
\* The action server clears its preempt flag when it accepts a goal.
Submit ==
    /\ pc \in {"idle", "done"}
    /\ requests < MaxRequests
    /\ requests' = requests + 1
    /\ num_tries' = 0
    /\ preempt_requested' = FALSE
    /\ pending' = 0
    /\ reports' = << >>
    /\ feedbacks' = << Scanning >>
    /\ scanGoals' = 1
    /\ navGoals' = 0
    /\ navCancels' = 0
    /\ scanCancels' = 0
    /\ broadcasts' = 0
    /\ lookups' = 0
    /\ navResult' = "none"
    /\ diffLog' = << >>
    /\ escaped' = FALSE
    /\ scanFailed' = FALSE
    /\ lookupFailed' = FALSE
    /\ sampleFailed' = FALSE
    /\ cancelAt' = "none"
    /\ cancelCycle' = 0
    /\ pc' = "scanning"
    /\ poseLog' = << >>
    /\ UNCHANGED << map_to_aruco, transforms, trans1, trans2, diffs, avgVars >>

ScanNotFoundNoReturn ==
    /\ publish_feedback(NotFound)
    /\ set_aborted
    /\ scanFailed' = TRUE
    /\ pc' = "resolve_marker"

\* execute_callback, lines 79-84: the scan did not find the marker
ScanNotFound ==
    /\ publish_feedback(NotFound)
    /\ set_aborted
    /\ scanFailed' = TRUE
    /\ pc' = "return"

\* execute_callback, lines 74-84: the first scan returns with get_result() = found
ScanReturn(found) ==
    /\ pc = "scanning"
    /\ IF preempt_requested
       THEN /\ preempt_callback
            /\ pc' = "return"
            /\ UNCHANGED << reports, scanFailed >>
       ELSE IF ~found
       THEN ScanNotFound
       ELSE /\ pc' = "resolve_marker"
            /\ UNCHANGED << reports, feedbacks, scanFailed >>
    /\ UNCHANGED << num_tries, map_to_aruco, transforms, pending, preempt_requested,
                    requests, navGoals, scanGoals, navCancels, scanCancels,
                    broadcasts, lookups, navResult, diffLog, escaped,
                    lookupFailed, sampleFailed, cancelAt, cancelCycle,
                    poseLog, trans1, trans2, diffs, avgVars >>

\* A lookup_transform of lines 86-87 raises: nothing in the class catches it, it
\* leaves execute_callback, and the SimpleActionServer that runs the callback
\* (line 18) aborts the goal if it has no terminal status yet.
Escape ==
    /\ escaped' = TRUE
    /\ lookupFailed' = TRUE
    /\ reports' = IF reports = << >> THEN << "aborted" >> ELSE reports
    /\ pc' = "done"

\* execute_callback, line 86: lookup_transform('base_link', aruco_name)
ResolveMarker(ok) ==
    /\ pc = "resolve_marker"
    /\ lookups' = lookups + 1
    /\ IF ok
       THEN /\ pc' = "resolve_map"
            /\ UNCHANGED << reports, escaped, lookupFailed >>
       ELSE Escape
    /\ UNCHANGED << num_tries, map_to_aruco, transforms, pending, preempt_requested,
                    requests, feedbacks, navGoals, scanGoals, navCancels, scanCancels,
                    broadcasts, navResult, diffLog,
                    scanFailed, sampleFailed, cancelAt, cancelCycle,
                    poseLog, trans1, trans2, diffs, avgVars >>

\* execute_callback, lines 87-91: lookup_transform('map', aruco_name), then the
\* call of navigate_to_marker
ResolveMapToAruco(ok, pose) ==
    /\ pc = "resolve_map"
    /\ lookups' = lookups + 1
    /\ IF ok
       THEN /\ map_to_aruco' = << pose >>
            /\ poseLog' = Append(poseLog, pose)
            /\ pc' = "navigate_to_marker"
            /\ UNCHANGED << reports, escaped, lookupFailed >>
       ELSE /\ Escape
            /\ UNCHANGED << map_to_aruco, poseLog >>
    /\ UNCHANGED << num_tries, transforms, pending, preempt_requested,
                    requests, feedbacks, navGoals, scanGoals, navCancels, scanCancels,
                    broadcasts, navResult, diffLog,
                    scanFailed, sampleFailed, cancelAt, cancelCycle,
                    trans1, trans2, diffs, avgVars >>

\* navigate_to_marker, lines 137-149: preempt check, count the try, broadcast
\* 'relative_pose', publish feedback
NavigateToMarker ==
    /\ pc = "navigate_to_marker"
    /\ IF preempt_requested
       THEN /\ preempt_callback
            /\ pc' = "return"
            /\ UNCHANGED << num_tries, broadcasts, transforms >>
       ELSE /\ num_tries' = num_tries + 1
            /\ broadcasts' = broadcasts + 1
            /\ transforms' = 0
            /\ publish_feedback(Navigating)
            /\ pc' = "sampling"
    /\ UNCHANGED << map_to_aruco, pending, preempt_requested, requests, reports,
                    navGoals, scanGoals, navCancels, scanCancels, lookups,
                    navResult, diffLog, escaped, scanFailed,
                    lookupFailed, sampleFailed, cancelAt, cancelCycle,
                    poseLog, trans1, trans2, diffs, avgVars >>

\* navigate_to_marker, lines 151-161: one pass of the sampling loop
Sample(ok) ==
    /\ pc = "sampling"
    /\ transforms < NumSamples
    /\ lookups' = lookups + 1
    /\ IF ok
       THEN /\ transforms' = transforms + 1
            /\ UNCHANGED << pc, reports, feedbacks, lookupFailed, sampleFailed >>
       ELSE /\ publish_feedback(NavFailed)
            /\ set_aborted
            /\ lookupFailed' = TRUE
            /\ sampleFailed' = TRUE
            /\ pc' = "return"
            /\ UNCHANGED transforms
    /\ UNCHANGED << num_tries, map_to_aruco, pending, preempt_requested, requests,
                    navGoals, scanGoals, navCancels, scanCancels, broadcasts,
                    navResult, diffLog, escaped, scanFailed,
                    cancelAt, cancelCycle, poseLog, trans1, trans2, diffs, avgVars >>

SendGoalAfter(n) ==
    /\ pc = "sampling"
    /\ transforms >= n - 1
    /\ navGoals' = navGoals + 1
    /\ pc' = "navigating"

\* navigate_to_marker, lines 151 and 163-181: the loop has n samples, the
\* averaged pose is sent to move_base
SendGoalWhen(n) ==
    /\ pc = "sampling"
    /\ transforms = n
    /\ navGoals' = navGoals + 1
    /\ pc' = "navigating"

SendGoal ==
    /\ SendGoalWhen(NumSamples)
    /\ UNCHANGED << num_tries, map_to_aruco, transforms, pending, preempt_requested,
                    requests, reports, feedbacks, scanGoals, navCancels, scanCancels,
                    broadcasts, lookups, navResult, diffLog, escaped,
                    scanFailed, lookupFailed, sampleFailed, cancelAt, cancelCycle,
                    poseLog, trans1, trans2, diffs, avgVars >>

TriesExhaustedAbove == num_tries > max_tries

TriesExhaustedEarly == num_tries >= max_tries - 1

\* if self.num_tries == self.max_tries
TriesExhausted == num_tries = max_tries

\* navigate_to_marker, lines 181-183, and move_base_aruco_callback, lines 185-201:
\* the navigation wait returns result, then preempt check, retry budget, re-scan goal
MoveBaseReturn(result) ==
    /\ pc = "navigating"
    /\ navResult' = result
    /\ IF preempt_requested
       THEN /\ preempt_callback
            /\ pc' = "return"
            /\ UNCHANGED << num_tries, reports, scanGoals >>
       ELSE IF TriesExhausted
       THEN /\ num_tries' = 0
            /\ publish_feedback(NavFailed)
            /\ set_aborted
            /\ pc' = "return"
            /\ UNCHANGED scanGoals
       ELSE /\ scanGoals' = scanGoals + 1
            /\ pc' = "rescanning"
            /\ UNCHANGED << num_tries, reports, feedbacks >>
    /\ UNCHANGED << map_to_aruco, transforms, pending, preempt_requested, requests,
                    navGoals, navCancels, scanCancels, broadcasts, lookups,
                    diffLog, escaped, scanFailed, lookupFailed,
                    sampleFailed, cancelAt, cancelCycle, poseLog, trans1, trans2, diffs, avgVars >>

adoptNothing(pose) == UNCHANGED map_to_aruco

\* self.map_to_aruco = new_map_to_aruco
adopt(pose) == map_to_aruco' = << pose >>

\* move_base_aruco_callback, lines 201-224: the re-scan returns with
\* get_result() = found, the marker is resolved in 'map' (ok, pose) and the
\* drift from map_to_aruco is evaluated
RescanReturn(found, ok, pose) ==
    /\ pc = "rescanning"
    /\ IF ~found
       THEN /\ publish_feedback(NotFound)
            /\ set_aborted
            /\ scanFailed' = TRUE
            /\ pc' = "return"
            /\ UNCHANGED << lookups, lookupFailed, map_to_aruco, pending, diffLog,
                            poseLog >>
       ELSE IF ~ok
       THEN /\ lookups' = lookups + 1
            /\ publish_feedback(NavFailed)
            /\ set_aborted
            /\ lookupFailed' = TRUE
            /\ pc' = "return"
            /\ UNCHANGED << scanFailed, map_to_aruco, pending, diffLog, poseLog >>
       ELSE LET diff == calculate_diff(map_to_aruco[1], pose)
            IN  /\ lookups' = lookups + 1
                /\ poseLog' = Append(poseLog, pose)
                /\ diffLog' = Append(diffLog, diff)
                /\ IF NotConverged(diff)
                   THEN /\ adopt(pose)
                        /\ pending' = pending + 1
                        /\ pc' = "navigate_to_marker"
                   ELSE /\ pc' = "succeed"
                        /\ UNCHANGED << map_to_aruco, pending >>
                /\ UNCHANGED << reports, feedbacks, scanFailed, lookupFailed >>
    /\ UNCHANGED << num_tries, transforms, preempt_requested, requests,
                    navGoals, scanGoals, navCancels, scanCancels, broadcasts,
                    navResult, escaped, sampleFailed, cancelAt, cancelCycle,
                    trans1, trans2, diffs, avgVars >>

\* move_base_aruco_callback, lines 226-230: reached when the drift is within the
\* threshold, and when the navigate_to_marker called in line 224 has returned
Succeed ==
    /\ pc = "succeed"
    /\ publish_feedback(Succeeded)
    /\ set_succeeded
    /\ pc' = "return"
    /\ UNCHANGED << num_tries, map_to_aruco, transforms, pending, preempt_requested,
                    requests, navGoals, scanGoals, navCancels, scanCancels,
                    broadcasts, lookups, navResult, diffLog, escaped,
                    scanFailed, lookupFailed, sampleFailed, cancelAt, cancelCycle,
                    poseLog, trans1, trans2, diffs, avgVars >>

\* a return of navigate_to_marker (lines 140, 161, 183) into the
\* move_base_aruco_callback frame that called it in line 224
ReturnToCallback ==
    /\ pc = "return"
    /\ pending > 0
    /\ pending' = pending - 1
    /\ pc' = "succeed"
    /\ UNCHANGED << num_tries, map_to_aruco, transforms, preempt_requested,
                    requests, reports, feedbacks, navGoals, scanGoals, navCancels,
                    scanCancels, broadcasts, lookups, navResult, diffLog, escaped, scanFailed, lookupFailed, sampleFailed,
                    cancelAt, cancelCycle, poseLog, trans1, trans2, diffs, avgVars >>

\* execute_callback returns (lines 77, 84, 91)
ExecuteReturn ==
    /\ pc = "return"
    /\ pending = 0
    /\ pc' = "done"
    /\ UNCHANGED << num_tries, map_to_aruco, transforms, pending, preempt_requested,
                    requests, reports, feedbacks, navGoals, scanGoals, navCancels,
                    scanCancels, broadcasts, lookups, navResult, diffLog, escaped, scanFailed, lookupFailed, sampleFailed,
                    cancelAt, cancelCycle, poseLog, trans1, trans2, diffs, avgVars >>

-----------------------------------------------------------------------------
(* The cancel thread *)

\* cancel_goals, lines 43-47, run by the action server when a cancellation of
\* the active goal arrives: the goal has no terminal status yet, and the server
\* raises its preempt flag before the callback.
cancel_goals ==
    /\ pc \notin {"idle", "done"}
    /\ reports = << >>
    /\ preempt_requested' = TRUE
    /\ scanCancels' = scanCancels + 1
    /\ navCancels' = navCancels + 1
    /\ set_preempted
    /\ cancelAt' = pc
    /\ cancelCycle' = num_tries
    /\ UNCHANGED << pc, num_tries, map_to_aruco, transforms, pending, requests,
                    feedbacks, navGoals, scanGoals, broadcasts, lookups, navResult,
                    diffLog, escaped, scanFailed, lookupFailed,
                    sampleFailed, poseLog, trans1, trans2, diffs, avgVars >>

-----------------------------------------------------------------------------

NavResults == {"SUCCEEDED", "ABORTED"}

Next ==
    \/ Submit
    \/ \E found \in BOOLEAN : ScanReturn(found)
    \/ \E ok \in BOOLEAN : ResolveMarker(ok)
    \/ \E ok \in BOOLEAN, pose \in MarkerPoses : ResolveMapToAruco(ok, pose)
    \/ NavigateToMarker
    \/ \E ok \in BOOLEAN : Sample(ok)
    \/ SendGoal
    \/ \E result \in NavResults : MoveBaseReturn(result)
    \/ \E found \in BOOLEAN, ok \in BOOLEAN, pose \in MarkerPoses :
           RescanReturn(found, ok, pose)
    \/ Succeed
    \/ ReturnToCallback
    \/ ExecuteReturn
    \/ cancel_goals

Spec == Init /\ [][Next]_vars

\* the steps of the execute thread once a request is accepted: every scan,
\* navigation and lookup call returns, and the thread keeps running
Execute ==
    \/ \E found \in BOOLEAN : ScanReturn(found)
    \/ \E ok \in BOOLEAN : ResolveMarker(ok)
    \/ \E ok \in BOOLEAN, pose \in MarkerPoses : ResolveMapToAruco(ok, pose)
    \/ NavigateToMarker
    \/ \E ok \in BOOLEAN : Sample(ok)
    \/ SendGoal
    \/ \E result \in NavResults : MoveBaseReturn(result)
    \/ \E found \in BOOLEAN, ok \in BOOLEAN, pose \in MarkerPoses :
           RescanReturn(found, ok, pose)
    \/ Succeed
    \/ ReturnToCallback
    \/ ExecuteReturn

FairSpec == Spec /\ WF_vars(Execute)

-----------------------------------------------------------------------------
(* calculate_diff as a pure function: the inputs are drawn from the pose   *)
(* grid, the action applies the function to them.                          *)

InitDiff ==
    /\ InitController
    /\ InitAvgIdle
    /\ trans1 \in DiffPoses
    /\ trans2 \in DiffPoses
    /\ diffs = << >>

\* calculate_diff(trans1, trans1), calculate_diff(trans1, trans2),
\* calculate_diff(trans2, trans1), and the test of line 222 on
\* calculate_diff(trans1, trans2)
ApplyDiff ==
    /\ diffs = << >>
    /\ diffs' = << calculate_diff(trans1, trans1),
                   calculate_diff(trans1, trans2),
                   calculate_diff(trans2, trans1),
                   NotConverged(calculate_diff(trans1, trans2)) >>
    /\ UNCHANGED << ctlVars, trans1, trans2, avgVars >>

NextDiff == ApplyDiff

SpecDiff == InitDiff /\ [][NextDiff]_vars

-----------------------------------------------------------------------------
(* average_transforms as a pure function: the input is a sequence of 1 to  *)
(* MaxAvgLen samples, k copies of one pose followed by copies of another.  *)

InitAvg ==
    /\ InitController
    /\ InitDiffIdle
    /\ \E n \in 1 .. MaxAvgLen, k \in 1 .. MaxAvgLen, p \in AvgPoses, q \in AvgPoses :
           /\ k <= n
           /\ samples = [ i \in 1 .. n |-> IF i <= k THEN p ELSE q ]
    /\ averaged = << >>

\* self.relative_pose_tf = self.average_transforms(transforms)
ApplyAverage ==
    /\ averaged = << >>
    /\ averaged' = << average_transforms(samples) >>
    /\ UNCHANGED << ctlVars, diffVars, samples >>

NextAvg == ApplyAverage

SpecAvg == InitAvg /\ [][NextAvg]_vars

-----------------------------------------------------------------------------
(* Vocabulary of the properties *)

Done == pc = "done"

Uncancelled == cancelAt = "none"

Has(seq, v) == \E i \in DOMAIN seq : seq[i] = v

Last(seq) == seq[Len(seq)]

\* a drift above the threshold 0.075
Over(diff) == diff > Threshold * DiffScale

AllOver == \A i \in DOMAIN diffLog : Over(diffLog[i])

NoneOver == \A i \in DOMAIN diffLog : ~Over(diffLog[i])

-----------------------------------------------------------------------------
(* Properties *)

\* C1: every request gets exactly one terminal report (set_succeeded,
\* set_aborted or set_preempted): never more than one at any time, and exactly
\* one once execute_callback has returned.
C1_ExactlyOneOutcome ==
    /\ Len(reports) <= 1
    /\ Done => Len(reports) = 1

\* C2: a finished request that was never cancelled, whose scans and lookups all
\* succeeded and whose every evaluation found the drift above the threshold,
\* was aborted with "Navigation failed" after exactly 3 navigation goals, never
\* reported success, and left num_tries at 0.
C2_NeverConvergingAborts ==
    (Done /\ Uncancelled /\ ~scanFailed /\ ~lookupFailed /\ AllOver)
        => /\ navGoals = 3
           /\ reports # << >>
           /\ reports[1] = "aborted"
           /\ Has(feedbacks, NavFailed)
           /\ ~Has(reports, "succeeded")
           /\ num_tries = 0

\* C3: once the initial scan of a request that was not cancelled has reported
\* marker-not-found, the request is aborted with the marker-not-located error
\* feedback, and no navigation goal has been sent, no transform broadcast and
\* no transform resolved for it.
C3_InitialScanNotFound ==
    (scanFailed /\ scanGoals = 1 /\ Uncancelled)
        => /\ pc \in {"return", "done"}
           /\ pending = 0
           /\ reports = << "aborted" >>
           /\ feedbacks = << Scanning, NotFound >>
           /\ alert_type(Last(feedbacks)) = "error"
           /\ navGoals = 0
           /\ broadcasts = 0
           /\ lookups = 0

C3_Witness == Done /\ scanFailed /\ scanGoals = 1 /\ Uncancelled

\* C4: a finished request that was never cancelled, whose scans and lookups all
\* succeeded and whose every evaluation found the drift within the threshold,
\* was reported Succeeded, and nothing else, after at most 2 navigation goals.
C4_ConvergingSucceeds ==
    (Done /\ Uncancelled /\ ~scanFailed /\ ~lookupFailed /\ NoneOver)
        => /\ reports = << "succeeded" >>
           /\ Last(feedbacks) = Succeeded
           /\ navGoals >= 1
           /\ navGoals <= 2

C4_Witness ==
    /\ Done /\ Uncancelled /\ ~scanFailed /\ ~lookupFailed /\ NoneOver
    /\ Len(diffLog) = 1
    /\ navResult = "ABORTED"

\* C5: a finished request that was cancelled while the execute thread waited
\* on move_base had cancel-all sent to both collaborators, ended Cancelled, and
\* reported neither a success outcome nor a success feedback.
C5_CancelWhileNavigating ==
    (Done /\ cancelAt = "navigating")
        => /\ scanCancels >= 1
           /\ navCancels >= 1
           /\ reports # << >>
           /\ reports[1] = "preempted"
           /\ ~Has(reports, "succeeded")
           /\ ~Has(feedbacks, Succeeded)

\* C6: whenever success has been reported (set_succeeded or a success
\* feedback), the most recent drift computed was at or below the threshold.
C6_SuccessOnlyOnConvergence ==
    (Has(reports, "succeeded") \/ Has(feedbacks, Succeeded))
        => /\ diffLog # << >>
           /\ ~Over(Last(diffLog))

\* C7: a navigation goal is sent only when 10 samples of 'relative_pose' have
\* been collected in the cycle; the step in which a sampling lookup fails
\* publishes the error feedback and calls set_aborted, and after it the request
\* makes no further lookup and sends no navigation goal.
C7_TenSamplesOrAbort ==
    [][ /\ (navGoals' > navGoals)
            => (pc = "sampling" /\ transforms = 10 /\ navGoals' = navGoals + 1)
        /\ (sampleFailed' /\ ~sampleFailed)
            => /\ pc = "sampling"
               /\ reports' = Append(reports, "aborted")
               /\ feedbacks' = Append(feedbacks, NavFailed)
               /\ alert_type(Last(feedbacks')) = "error"
               /\ lookups' = lookups + 1
               /\ navGoals' = navGoals
               /\ pc' = "return"
        /\ (sampleFailed /\ requests' = requests)
            => (navGoals' = navGoals /\ lookups' = lookups /\ sampleFailed')
      ]_vars

C7_Witness == Done /\ sampleFailed /\ navGoals = 1 /\ lookups > 12

\* C8: a transform lookup failure anywhere in a request never leaves the
\* controller as an unhandled exception: the controller reports Aborted and
\* has published the "Navigation failed" feedback, of severity error.
C8_LookupFailureHandled ==
    lookupFailed
        => /\ ~escaped
           /\ Has(reports, "aborted")
           /\ Has(feedbacks, NavFailed)
           /\ alert_type(NavFailed) = "error"

\* C9: at most 3 navigation goals are sent within one request.
C9_AtMostThreeGoals == navGoals <= 3

C9_Witness == navGoals = 3 /\ cancelAt = "navigating" /\ Done

\* C10: calculate_diff(P, P) = 0 and calculate_diff(P1, P2) = calculate_diff(P2, P1)
\* for all poses of the grid.
C10_DiffZeroAndSymmetric ==
    diffs # << >> => (diffs[1] = 0 /\ diffs[2] = diffs[3])

C10_Witness ==
    /\ diffs # << >>
    /\ trans1.yaw # 0
    /\ trans1.x # trans2.x /\ trans1.y # trans2.y /\ trans1.yaw # trans2.yaw
    /\ diffs[2] > 0

\* C11: the drift is classified not-converged exactly when
\* sqrt(dx^2 + dy^2 + dyaw^2) > 0.075, that is when dx^2 + dy^2 + dyaw^2 > 0.075^2:
\* a delta of (0.1, 0) with equal yaw is not converged, a delta of (0.05, 0) is
\* converged, and a difference of exactly 0.075 is converged.
SumOfSquares ==
    (trans1.x - trans2.x) * (trans1.x - trans2.x)
    + (trans1.y - trans2.y) * (trans1.y - trans2.y)
    + (trans1.yaw - trans2.yaw) * (trans1.yaw - trans2.yaw)

Delta(dx, dy, dyaw) ==
    /\ trans1.x - trans2.x = dx
    /\ trans1.y - trans2.y = dy
    /\ trans1.yaw - trans2.yaw = dyaw

C11_ClassifiedByThreshold ==
    diffs # << >>
        => /\ diffs[4] <=> (SumOfSquares > 75 * 75)
           /\ Delta(100, 0, 0) => diffs[4]
           /\ Delta(50, 0, 0) => ~diffs[4]
           /\ SumOfSquares = 75 * 75 => ~diffs[4]

C11_Witness ==
    /\ diffs # << >>
    /\ Delta(0, -75, 0)
    /\ diffs[2] = 75 * DiffScale
    /\ ~diffs[4]

\* C12: average_transforms applied to N >= 1 samples all equal to p returns
\* p's x, y and yaw, with z = 0 and roll = pitch = 0.
Identical == \A i \in DOMAIN samples : samples[i] = samples[1]

C12_AverageOfIdentical ==
    (averaged # << >> /\ Identical)
        => /\ averaged[1].x = samples[1].x
           /\ averaged[1].y = samples[1].y
           /\ averaged[1].yaw = samples[1].yaw
           /\ averaged[1].z = 0
           /\ averaged[1].roll = 0
           /\ averaged[1].pitch = 0

C12_Witness ==
    /\ averaged # << >>
    /\ Identical
    /\ Len(samples) = 10
    /\ samples[1].z # 0 /\ samples[1].roll # 0 /\ samples[1].pitch # 0
    /\ samples[1].yaw = -3000
    /\ averaged[1].yaw = -3000

\* C13 as claimed: whenever the navigation wait returns, with any result, and
\* no cancellation has been requested, the next thing the controller does is
\* send a scan goal, before any terminal report, in every cycle.
C13_RescanAfterEveryNavigation ==
    [][ (pc = "navigating" /\ pc' # pc /\ ~preempt_requested)
            => (scanGoals' = scanGoals + 1 /\ reports' = << >>)
      ]_vars

\* C13 as amended: that holds while num_tries < 3 (first and second cycle);
\* when the third navigation wait returns the controller calls set_aborted
\* without sending a scan goal.
C13_RescanWhileBudgetLeft ==
    [][ (pc = "navigating" /\ pc' # pc /\ ~preempt_requested)
            => IF num_tries < 3
               THEN /\ scanGoals' = scanGoals + 1
                    /\ reports' = << >>
                    /\ pc' = "rescanning"
               ELSE /\ scanGoals' = scanGoals
                    /\ reports' = << "aborted" >>
                    /\ Last(feedbacks') = NavFailed
      ]_vars

C13_Witness ==
    /\ pc = "rescanning"
    /\ num_tries = 2
    /\ scanGoals = 3
    /\ navResult = "ABORTED"
    /\ Uncancelled

\* C14: when a blocking collaborator call (initial scan, navigation, re-scan)
\* returns and a cancellation has been requested, the controller sends no goal,
\* evaluates no drift and makes no terminal report of its own: it returns, and
\* a request cancelled during such a wait ends with set_preempted alone.
Waits == {"scanning", "navigating", "rescanning"}

C14_CancelHonouredAfterWaits ==
    [][ /\ (preempt_requested /\ pc \in Waits /\ pc' # pc)
            => /\ scanGoals' = scanGoals
               /\ navGoals' = navGoals
               /\ diffLog' = diffLog
               /\ reports' = reports
               /\ pc' = "return"
        /\ (pc' = "done" /\ cancelAt' \in Waits) => reports' = << "preempted" >>
      ]_vars

\* C15: 0 <= num_tries <= 3 in every state, and num_tries = 0 while the first
\* scan of a request is outstanding.
C15_TriesInBounds ==
    /\ num_tries \in 0 .. 3
    /\ pc = "scanning" => num_tries = 0

C15_Witness == requests = 2 /\ num_tries = 3 /\ pc = "navigating"

\* C16: every drift evaluated is the difference of the two marker poses
\* resolved last; map_to_aruco is the pose resolved after the initial scan until
\* an evaluation finds the drift above the threshold, then the pose resolved at
\* that evaluation; an evaluation within the threshold, an abort or a
\* cancellation leaves it as it is.
C16_TwoMostRecentEstimates ==
    poseLog # << >>
        => /\ Len(poseLog) = Len(diffLog) + 1
           /\ \A i \in DOMAIN diffLog :
                 diffLog[i] = calculate_diff(poseLog[i], poseLog[i + 1])
           /\ \A i \in DOMAIN diffLog : i < Len(diffLog) => Over(diffLog[i])
           /\ map_to_aruco =
                 IF diffLog = << >> THEN << poseLog[1] >>
                 ELSE IF Over(Last(diffLog)) THEN << Last(poseLog) >>
                 ELSE << poseLog[Len(poseLog) - 1] >>

C16_Witness ==
    /\ Len(diffLog) = 2
    /\ Over(diffLog[1]) /\ ~Over(diffLog[2])
    /\ poseLog[3] # poseLog[2] /\ poseLog[3] # poseLog[1]
    /\ map_to_aruco = << poseLog[2] >>
    /\ Done

\* C17: under fair scheduling of the execute thread every accepted request
\* reaches the end of execute_callback with a terminal report made, and never
\* more than max_tries navigate_to_marker calls are nested (at most
\* max_tries - 1 suspended move_base_aruco_callback frames).
C17_RequestTerminates ==
    /\ (pc \notin {"idle", "done"}) ~> (Done /\ reports # << >>)
    /\ [](pending < max_tries /\ num_tries <= max_tries)

C17_Witness ==
    /\ pc = "return"
    /\ pending = 2
    /\ num_tries = 0
    /\ navGoals = 3
    /\ reports = << "aborted" >>

\* C18: once cancel_goals has run for a request, the execute thread sends no
\* scan goal and no navigation goal for that request.
C18_NoGoalAfterCancel ==
    [][ (cancelAt # "none" /\ requests' = requests)
            => (navGoals' = navGoals /\ scanGoals' = scanGoals)
      ]_vars

\* C19: when execute_callback has returned from a request that was not
\* cancelled, or was cancelled during a collaborator wait, the feedback
\* published last has severity error if the request ended Aborted or Cancelled
\* and severity success if it ended Succeeded; and no success feedback ever
\* follows an error feedback of the same request.
C19_LastFeedbackAgrees ==
    /\ (Done /\ ~escaped /\ cancelAt \in Waits \cup {"none"})
        => /\ reports # << >>
           /\ reports[1] \in {"aborted", "preempted"}
                 => alert_type(Last(feedbacks)) = "error"
           /\ reports[1] = "succeeded"
                 => alert_type(Last(feedbacks)) = "success"
    /\ \A i, j \in DOMAIN feedbacks :
          (i < j /\ alert_type(feedbacks[i]) = "error")
              => alert_type(feedbacks[j]) # "success"

=============================================================================
